---- MODULE Spec2Model ----
(***************************************************************************)
(* Handler registration (on, on_typed, after) and the route-table builder  *)
(* (create_route_map) of ocpp/routing.py.                                  *)
(***************************************************************************)
EXTENDS Naturals, Sequences, FiniteSets, TLC

\* ---------------------------------------------------------------- bounds
MaxApps == 3

\* ------------------------------------------------------------ the universe
Classes == {"A", "B"}
Names == {"h1", "h2"}
\* members of enums.Action
ActionMembers == {"Heartbeat", "Reset"}
\* names of the request types handed to on_typed; the last one is not the
\* name of a member of enums.Action
CallTypes == {"Heartbeat", "Reset", "ResetPayload"}
Threads == {"t1", "t2"}
Options == <<"_on_action", "_after_action">>

\* routables  the module-level list of handler names
\* attrs      per class, the attributes an instance of it has: name -> the
\*            __dict__ of the callable bound there (its attached metadata)
\* raised     the exception of the latest wrapper application, or "none"
\* napps      number of definitions and wrapper applications so far
\* obj, idx, opt, routes
\*            the running create_route_map call: its argument, the position
\*            of the two loops and the local dict; obj = "none" when no
\*            call is running
\* retobj, retmap
\*            the mapping returned by the latest call and the instance it
\*            was built for, kept until the next registration
\* tpc, treq  per thread, the position inside decorator() and the
\*            callable being registered (concurrent registration only)
VARIABLES routables, attrs, raised, napps, obj, idx, opt, routes, retobj,
          retmap, tpc, treq

vars == <<routables, attrs, raised, napps, obj, idx, opt, routes, retobj,
          retmap, tpc, treq>>

\* --------------------------------------------------------------- helpers
EmptyDict == [k \in {} |-> k]

Put(d, k, v) == [x \in DOMAIN d \cup {k} |-> IF x = k THEN v ELSE d[x]]

Range(s) == {s[j] : j \in DOMAIN s}

Count(s, n) == Cardinality({j \in DOMAIN s : s[j] = n})

NoReq == [kind |-> "none", cls |-> "A", name |-> "h1", meta |-> EmptyDict]

\* enums.Action(call_type.__name__): lookup of an enumeration member by value
EnumAction(typeName) ==
    IF typeName \in ActionMembers THEN typeName ELSE "ValueError"

\* variant: the wrapper does not carry over func.__dict__
Wraps_noDict(funcMeta) == EmptyDict

\* functools.wraps(func): inner starts with a copy of func.__dict__
Wraps(funcMeta) == funcMeta

\* the callable a wrapper is applied to: the one bound at cls.name
\* (stacked wrappers) or a freshly defined function of that name
FuncOf(c, n, stacked) == IF stacked THEN attrs[c][n] ELSE EmptyDict

\* variant: the validation flag is not attached
OnInner_noSkip(funcMeta, action, skip) ==
    Put(Wraps(funcMeta), "_on_action", action)

OnInner(funcMeta, action, skip) ==
    Put(Put(Wraps(funcMeta), "_on_action", action),
        "_skip_schema_validation", skip)

AfterInner(funcMeta, action) == Put(Wraps(funcMeta), "_after_action", action)

\* variant: append without the membership test
Register_dup(reg, n) == Append(reg, n)

\* if func.__name__ not in routables: routables.append(func.__name__)
Register(reg, n) == IF n \in Range(reg) THEN reg ELSE Append(reg, n)

Bind(c, n, meta) == [attrs EXCEPT ![c] = Put(@, n, meta)]

Idle == obj = "none" /\ \A t \in Threads : tpc[t] = "idle"

CanApply(c, n, stacked) ==
    /\ Idle
    /\ napps < MaxApps
    /\ stacked => n \in DOMAIN attrs[c]

\* ------------------------------------------------------------------ Init
Init ==
    /\ routables = << >>
    /\ attrs = [c \in Classes |-> EmptyDict]
    /\ raised = "none"
    /\ napps = 0
    /\ obj = "none"
    /\ idx = 1
    /\ opt = 1
    /\ routes = EmptyDict
    /\ retobj = "none"
    /\ retmap = EmptyDict
    /\ tpc = [t \in Threads |-> "idle"]
    /\ treq = [t \in Threads |-> NoReq]

\* --------------------------------------------- registration, one thread
on(c, n, action, skip, stacked) ==
    /\ CanApply(c, n, stacked)
    /\ attrs' = Bind(c, n, OnInner(FuncOf(c, n, stacked), action, skip))
    /\ routables' = Register(routables, n)
    /\ raised' = "none"
    /\ napps' = napps + 1
    /\ retobj' = "none"
    /\ retmap' = EmptyDict
    /\ UNCHANGED <<obj, idx, opt, routes, tpc, treq>>

on_typed(c, n, callType, skip, stacked) ==
    /\ CanApply(c, n, stacked)
    /\ napps' = napps + 1
    /\ IF EnumAction(callType) = "ValueError"
       THEN /\ raised' = "ValueError"
            /\ UNCHANGED <<attrs, routables, retobj, retmap>>
       ELSE /\ attrs' = Bind(c, n, OnInner(FuncOf(c, n, stacked),
                                           EnumAction(callType), skip))
            /\ routables' = Register(routables, n)
            /\ raised' = "none"
            /\ retobj' = "none"
            /\ retmap' = EmptyDict
    /\ UNCHANGED <<obj, idx, opt, routes, tpc, treq>>

after(c, n, action, stacked) ==
    /\ CanApply(c, n, stacked)
    /\ attrs' = Bind(c, n, AfterInner(FuncOf(c, n, stacked), action))
    /\ routables' = Register(routables, n)
    /\ raised' = "none"
    /\ napps' = napps + 1
    /\ retobj' = "none"
    /\ retmap' = EmptyDict
    /\ UNCHANGED <<obj, idx, opt, routes, tpc, treq>>

\* a method defined without any wrapper
Define(c, n) ==
    /\ CanApply(c, n, FALSE)
    /\ attrs' = Bind(c, n, EmptyDict)
    /\ napps' = napps + 1
    /\ retobj' = "none"
    /\ retmap' = EmptyDict
    /\ UNCHANGED <<routables, raised, obj, idx, opt, routes, tpc, treq>>

\* ------------------------------------------------------ create_route_map
\* variant: a name missing on the instance is looked up on the other classes
GetAttr_anyClass(c, n) ==
    IF n \in DOMAIN attrs[c] THEN <<c, n>>
    ELSE IF \E d \in Classes : n \in DOMAIN attrs[d]
         THEN <<CHOOSE d \in Classes : n \in DOMAIN attrs[d], n>>
         ELSE <<"AttributeError">>

\* getattr(obj, attr_name)
GetAttr(c, n) ==
    IF n \in DOMAIN attrs[c] THEN <<c, n>> ELSE <<"AttributeError">>

MetaOf(ref) == attrs[ref[1]][ref[2]]

\* getattr(attr, "_skip_schema_validation", False)
SkipOf(meta) ==
    IF "_skip_schema_validation" \in DOMAIN meta
    THEN meta["_skip_schema_validation"] ELSE FALSE

\* variant: the flag is written for both options
ProcessOption_skipAlways(rts, c, n, option) ==
    LET attr == GetAttr(c, n) IN
    IF attr = <<"AttributeError">> THEN rts
    ELSE IF option \notin DOMAIN MetaOf(attr) THEN rts
    ELSE LET action == MetaOf(attr)[option]
             e0 == IF action \in DOMAIN rts THEN rts[action] ELSE EmptyDict
             e1 == Put(e0, "_skip_schema_validation", SkipOf(MetaOf(attr)))
         IN Put(rts, action, Put(e1, option, attr))

\* variant: a handler already entered for the action is kept
ProcessOption_firstWins(rts, c, n, option) ==
    LET attr == GetAttr(c, n) IN
    IF attr = <<"AttributeError">> THEN rts
    ELSE IF option \notin DOMAIN MetaOf(attr) THEN rts
    ELSE LET action == MetaOf(attr)[option]
             e0 == IF action \in DOMAIN rts THEN rts[action] ELSE EmptyDict
             e1 == IF option = "_on_action"
                   THEN Put(e0, "_skip_schema_validation", SkipOf(MetaOf(attr)))
                   ELSE e0
         IN IF option \in DOMAIN e0 THEN rts
            ELSE Put(rts, action, Put(e1, option, attr))

\* variant: the entry is created anew on every pass
ProcessOption_resetEntry(rts, c, n, option) ==
    LET attr == GetAttr(c, n) IN
    IF attr = <<"AttributeError">> THEN rts
    ELSE IF option \notin DOMAIN MetaOf(attr) THEN rts
    ELSE LET action == MetaOf(attr)[option]
             e0 == EmptyDict
             e1 == IF option = "_on_action"
                   THEN Put(e0, "_skip_schema_validation", SkipOf(MetaOf(attr)))
                   ELSE e0
         IN Put(rts, action, Put(e1, option, attr))

\* variant: only "_on_action" is looked at
ProcessOption_onOnly(rts, c, n, option) ==
    LET attr == GetAttr(c, n) IN
    IF attr = <<"AttributeError">> THEN rts
    ELSE IF option # "_on_action" THEN rts
    ELSE IF option \notin DOMAIN MetaOf(attr) THEN rts
    ELSE LET action == MetaOf(attr)[option]
             e0 == IF action \in DOMAIN rts THEN rts[action] ELSE EmptyDict
             e1 == Put(e0, "_skip_schema_validation", SkipOf(MetaOf(attr)))
         IN Put(rts, action, Put(e1, option, attr))

\* one pass of the body of the inner loop
ProcessOption(rts, c, n, option) ==
    LET attr == GetAttr(c, n) IN
    IF attr = <<"AttributeError">> THEN rts
    ELSE IF option \notin DOMAIN MetaOf(attr) THEN rts
    ELSE LET action == MetaOf(attr)[option]
             e0 == IF action \in DOMAIN rts THEN rts[action] ELSE EmptyDict
             e1 == IF option = "_on_action"
                   THEN Put(e0, "_skip_schema_validation", SkipOf(MetaOf(attr)))
                   ELSE e0
         IN Put(rts, action, Put(e1, option, attr))

create_route_map(c) ==
    /\ Idle
    /\ obj' = c
    /\ idx' = 1
    /\ opt' = 1
    /\ routes' = EmptyDict
    /\ UNCHANGED <<routables, attrs, raised, napps, retobj, retmap, tpc, treq>>

\* variant: a name the instance does not have is dropped from the registry
create_route_map_loop_prune ==
    /\ obj # "none"
    /\ idx <= Len(routables)
    /\ routes' = ProcessOption(routes, obj, routables[idx], Options[opt])
    /\ IF routables[idx] \notin DOMAIN attrs[obj]
       THEN /\ routables' = SelectSeq(routables,
                                      LAMBDA x : x # routables[idx])
            /\ opt' = 1 /\ idx' = idx
       ELSE /\ routables' = routables
            /\ IF opt = 1 THEN opt' = 2 /\ idx' = idx
                          ELSE opt' = 1 /\ idx' = idx + 1
    /\ UNCHANGED <<attrs, raised, napps, obj, retobj, retmap, tpc, treq>>

create_route_map_loop ==
    /\ obj # "none"
    /\ idx <= Len(routables)
    /\ routes' = ProcessOption(routes, obj, routables[idx], Options[opt])
    /\ IF opt = 1 THEN opt' = 2 /\ idx' = idx
                  ELSE opt' = 1 /\ idx' = idx + 1
    /\ UNCHANGED <<routables, attrs, raised, napps, obj, retobj, retmap, tpc, treq>>

create_route_map_return ==
    /\ obj # "none"
    /\ idx > Len(routables)
    /\ retobj' = obj
    /\ retmap' = routes
    /\ obj' = "none"
    /\ idx' = 1
    /\ opt' = 1
    /\ routes' = EmptyDict
    /\ UNCHANGED <<routables, attrs, raised, napps, tpc, treq>>

Next ==
    \/ \E c \in Classes, n \in Names, a \in ActionMembers, s \in BOOLEAN,
          k \in BOOLEAN : on(c, n, a, s, k)
    \/ \E c \in Classes, n \in Names, ct \in CallTypes, s \in BOOLEAN,
          k \in BOOLEAN : on_typed(c, n, ct, s, k)
    \/ \E c \in Classes, n \in Names, a \in ActionMembers,
          k \in BOOLEAN : after(c, n, a, k)
    \/ \E c \in Classes, n \in Names : Define(c, n)
    \/ \E c \in Classes : create_route_map(c)
    \/ create_route_map_loop
    \/ create_route_map_return

Spec == Init /\ [][Next]_vars

\* registration alone: the wrappers run at definition time, before any
\* route table is built
NextReg ==
    \/ \E c \in Classes, n \in Names, a \in ActionMembers, s \in BOOLEAN,
          k \in BOOLEAN : on(c, n, a, s, k)
    \/ \E c \in Classes, n \in Names, ct \in CallTypes, s \in BOOLEAN,
          k \in BOOLEAN : on_typed(c, n, ct, s, k)
    \/ \E c \in Classes, n \in Names, a \in ActionMembers,
          k \in BOOLEAN : after(c, n, a, k)
    \/ \E c \in Classes, n \in Names : Define(c, n)

SpecReg == Init /\ [][NextReg]_vars

\* ------------------------------------- registration by concurrent threads
\* The body of decorator() up to the membership test, applied to a freshly
\* defined function: create inner, attach the metadata, evaluate
\* `func.__name__ not in routables`.
RaceBegin(t, c, n, kind, meta) ==
    /\ obj = "none"
    /\ tpc[t] = "idle"
    /\ napps < MaxApps
    /\ napps' = napps + 1
    /\ treq' = [treq EXCEPT ![t] = [kind |-> kind, cls |-> c, name |-> n,
                                    meta |-> meta]]
    /\ tpc' = [tpc EXCEPT ![t] = IF n \in Range(routables)
                                 THEN "return" ELSE "append"]
    /\ UNCHANGED <<routables, attrs, raised, obj, idx, opt, routes, retobj,
                   retmap>>

on_test(t, c, n, action, skip) ==
    RaceBegin(t, c, n, "on", OnInner(FuncOf(c, n, FALSE), action, skip))

after_test(t, c, n, action) ==
    RaceBegin(t, c, n, "after", AfterInner(FuncOf(c, n, FALSE), action))

\* variant: the membership test is repeated together with the append
RaceAppend_checked(t) ==
    /\ tpc[t] = "append"
    /\ routables' = Register(routables, treq[t].name)
    /\ tpc' = [tpc EXCEPT ![t] = "return"]
    /\ UNCHANGED <<attrs, raised, napps, obj, idx, opt, routes, retobj,
                   retmap, treq>>

\* routables.append(func.__name__)
RaceAppend(t) ==
    /\ tpc[t] = "append"
    /\ routables' = Append(routables, treq[t].name)
    /\ tpc' = [tpc EXCEPT ![t] = "return"]
    /\ UNCHANGED <<attrs, raised, napps, obj, idx, opt, routes, retobj,
                   retmap, treq>>

\* return inner
RaceReturn(t) ==
    /\ tpc[t] = "return"
    /\ attrs' = Bind(treq[t].cls, treq[t].name, treq[t].meta)
    /\ tpc' = [tpc EXCEPT ![t] = "idle"]
    /\ treq' = [treq EXCEPT ![t] = NoReq]
    /\ UNCHANGED <<routables, raised, napps, obj, idx, opt, routes, retobj,
                   retmap>>

NextRace ==
    \/ \E t \in Threads, c \in Classes, n \in Names, a \in ActionMembers,
          s \in BOOLEAN : on_test(t, c, n, a, s)
    \/ \E t \in Threads, c \in Classes, n \in Names,
          a \in ActionMembers : after_test(t, c, n, a)
    \/ \E t \in Threads : RaceAppend(t)
    \/ \E t \in Threads : RaceReturn(t)

SpecRace == Init /\ [][NextRace]_vars

\* ------------------------------------------------------------ properties
ON == "_on_action"
AFTER == "_after_action"
SKIP == "_skip_schema_validation"

\* a mapping returned by create_route_map is held
Returned == retobj # "none"

\* attribute n of instance c carries `action` under `option`
Claims(c, n, option, action) ==
    /\ n \in DOMAIN attrs[c]
    /\ option \in DOMAIN attrs[c][n]
    /\ attrs[c][n][option] = action

\* positions of the registry whose name claims `action` under `option`
Claimants(c, option, action) ==
    {j \in DOMAIN routables : Claims(c, routables[j], option, action)}

Max(S) == CHOOSE x \in S : \A y \in S : y <= x

Position(n) == CHOOSE j \in DOMAIN routables : routables[j] = n

\* C1 (as stated): every entry of the returned mapping has a
\* skip_validation value, and the value is false when the entry has only a
\* post handler.
C1_Original ==
    Returned =>
        \A a \in DOMAIN retmap :
            /\ SKIP \in DOMAIN retmap[a]
            /\ ON \notin DOMAIN retmap[a] => retmap[a][SKIP] = FALSE

\* C1 (amended): an entry of the returned mapping has a skip_validation
\* value exactly when it has a primary handler; an entry with only a post
\* handler has no such key, so that only a lookup with default false
\* yields false.
C1_SkipOnlyWithPrimary ==
    Returned =>
        \A a \in DOMAIN retmap :
            /\ SKIP \in DOMAIN retmap[a] <=> ON \in DOMAIN retmap[a]
            /\ SKIP \in DOMAIN retmap[a] => retmap[a][SKIP] \in BOOLEAN
            /\ ON \notin DOMAIN retmap[a] => SkipOf(retmap[a]) = FALSE

C1_Witness ==
    /\ Returned
    /\ \E a \in DOMAIN retmap : DOMAIN retmap[a] = {AFTER}
    /\ \E a \in DOMAIN retmap : ON \in DOMAIN retmap[a]

\* C2: under sequential registration no name occurs twice in routables, and
\* applying a wrapper to a handler whose name is already registered leaves
\* routables unchanged.
NoDuplicates == \A n \in Names : Count(routables, n) <= 1

C2_RegistryDeduplicated ==
    [][/\ NoDuplicates'
       /\ \/ routables' = routables
          \/ \A c \in Classes, n \in Range(routables), s \in BOOLEAN,
                k \in BOOLEAN :
                /\ \A a \in ActionMembers : ~on(c, n, a, s, k)
                /\ \A ct \in CallTypes : ~on_typed(c, n, ct, s, k)
                /\ \A a \in ActionMembers : ~after(c, n, a, k)]_vars

C2_Witness ==
    /\ Len(routables) = 1
    /\ \E c \in Classes, d \in Classes :
          /\ c # d
          /\ routables[1] \in DOMAIN attrs[c]
          /\ routables[1] \in DOMAIN attrs[d]
          /\ {ON, AFTER} \subseteq DOMAIN attrs[c][routables[1]]
          /\ ON \in DOMAIN attrs[d][routables[1]]

\* C3: for every action, the primary handler of the returned entry is the
\* attribute of the last registry name that claims the action as primary,
\* the entry's flag is the flag attached to that attribute, and the post
\* handler is the attribute of the last registry name that claims the action
\* as post handler.
C3_LastInRegistryWins ==
    Returned =>
        \A a \in ActionMembers :
            /\ Claimants(retobj, ON, a) # {} =>
                 LET n == routables[Max(Claimants(retobj, ON, a))] IN
                 /\ a \in DOMAIN retmap
                 /\ ON \in DOMAIN retmap[a]
                 /\ retmap[a][ON] = <<retobj, n>>
                 /\ retmap[a][SKIP] = attrs[retobj][n][SKIP]
            /\ Claimants(retobj, AFTER, a) # {} =>
                 LET n == routables[Max(Claimants(retobj, AFTER, a))] IN
                 /\ a \in DOMAIN retmap
                 /\ AFTER \in DOMAIN retmap[a]
                 /\ retmap[a][AFTER] = <<retobj, n>>

C3_Witness ==
    /\ Returned
    /\ \E a \in ActionMembers :
          /\ Cardinality(Claimants(retobj, ON, a)) = 2
          /\ attrs[retobj][routables[1]][SKIP] # attrs[retobj][routables[2]][SKIP]
          /\ retmap[a][ON] = <<retobj, routables[2]>>

\* C4: a pass for "_after_action" leaves the primary handler and the flag of
\* every entry as they were, a pass for "_on_action" leaves the post handler
\* as it was; hence in the returned mapping an action claimed by one primary
\* handler with flag s and by a post handler has both handlers and flag s,
\* in either registry order.
Keeps(e, f, keys) ==
    \A k \in keys : /\ k \in DOMAIN e <=> k \in DOMAIN f
                    /\ k \in DOMAIN e => e[k] = f[k]

BothHandlers ==
    Returned =>
        \A a \in ActionMembers :
            \A p \in Claimants(retobj, ON, a) :
                (/\ Claimants(retobj, ON, a) = {p}
                 /\ Claimants(retobj, AFTER, a) # {})
                => /\ a \in DOMAIN retmap
                   /\ {ON, AFTER, SKIP} \subseteq DOMAIN retmap[a]
                   /\ retmap[a][ON] = <<retobj, routables[p]>>
                   /\ retmap[a][SKIP] = attrs[retobj][routables[p]][SKIP]
                   /\ Claims(retobj, retmap[a][AFTER][2], AFTER, a)

C4_BothHandlersKept ==
    [][/\ create_route_map_loop =>
            \A a \in DOMAIN routes :
                /\ a \in DOMAIN routes'
                /\ Options[opt] = AFTER
                     => Keeps(routes[a], routes'[a], {ON, SKIP})
                /\ Options[opt] = ON
                     => Keeps(routes[a], routes'[a], {AFTER})
       /\ BothHandlers']_vars

C4_Witness ==
    /\ Returned
    /\ \E a \in DOMAIN retmap :
          /\ {ON, AFTER, SKIP} \subseteq DOMAIN retmap[a]
          /\ retmap[a][SKIP] = TRUE
          /\ retmap[a][ON][2] # retmap[a][AFTER][2]
          /\ Position(retmap[a][ON][2]) < Position(retmap[a][AFTER][2])
          /\ Cardinality(Claimants(retobj, ON, a)) = 1

\* C5: the keys of the returned mapping are exactly the actions that some
\* registry name, being an attribute of the instance, carries as
\* primary_action or post_action, and every entry holds a handler.
ClaimedActions(c) ==
    {a \in ActionMembers :
        \E j \in DOMAIN routables :
            \/ Claims(c, routables[j], ON, a)
            \/ Claims(c, routables[j], AFTER, a)}

C5_KeysAreClaimedActions ==
    Returned =>
        /\ DOMAIN retmap = ClaimedActions(retobj)
        /\ \A a \in DOMAIN retmap : DOMAIN retmap[a] \cap {ON, AFTER} # {}

C5_Witness ==
    /\ Returned
    /\ DOMAIN retmap # {}
    /\ ActionMembers \ DOMAIN retmap # {}
    /\ \E j \in DOMAIN routables :
          /\ routables[j] \in DOMAIN attrs[retobj]
          /\ DOMAIN attrs[retobj][routables[j]] = {}
    /\ \E a \in DOMAIN retmap : ON \notin DOMAIN retmap[a]

\* C6: a pass for a registry name that is not an attribute of the instance
\* leaves the mapping under construction as it is, and every handler of the
\* returned mapping is an attribute of the instance the mapping was built
\* for, carrying the entry's action.
HandlersOwned ==
    Returned =>
        \A a \in DOMAIN retmap :
            \A k \in DOMAIN retmap[a] \cap {ON, AFTER} :
                /\ retmap[a][k][1] = retobj
                /\ Claims(retobj, retmap[a][k][2], k, a)

C6_OnlyOwnHandlers ==
    [][/\ (create_route_map_loop /\ routables[idx] \notin DOMAIN attrs[obj])
            => routes' = routes
       /\ HandlersOwned']_vars

C6_Witness ==
    /\ Returned
    /\ \E d \in Classes \ {retobj}, a \in DOMAIN retmap :
          /\ Len(routables) = 2
          /\ Claims(retobj, routables[1], ON, a)
          /\ routables[2] \notin DOMAIN attrs[retobj]
          /\ Claims(d, routables[2], ON, a)
          /\ routables[1] \notin DOMAIN attrs[d]
          /\ retmap[a][ON] = <<retobj, routables[1]>>

\* C7: no step of create_route_map changes routables or the attributes of
\* any instance, and a call that returns while the mapping of an earlier
\* call on the same instance is still held (no registration in between)
\* returns an equal mapping.
C7_BuilderReadsOnly ==
    [][/\ (obj # "none" \/ obj' # "none")
            => (routables' = routables /\ attrs' = attrs)
       /\ (create_route_map_return /\ retobj = obj) => retmap' = retmap]_vars

C7_Witness ==
    /\ Returned
    /\ obj = retobj
    /\ idx > Len(routables)
    /\ Len(routables) = 2
    /\ Cardinality(DOMAIN routes) = 2
    /\ routables[1] \notin DOMAIN attrs[obj]

\* the step changes no attribute other than n of class c
OnlyTouches(c, n) ==
    /\ \A d \in Classes \ {c} : attrs'[d] = attrs[d]
    /\ \A m \in DOMAIN attrs[c] \ {n} :
          m \in DOMAIN attrs'[c] /\ attrs'[c][m] = attrs[c][m]

\* C8 (as stated): no application of on, on_typed or after raises.
C8_Original == raised = "none"

\* C8 (amended): applying on or after never raises; it binds a callable
\* carrying the given action (and flag) and leaves the name in routables.
\* Applying on_typed does the same, with the member of enums.Action named
\* by the request type as primary_action, when the type's name is such a
\* member; otherwise it raises ValueError and changes neither routables nor
\* any attribute.
PrimaryAttached(c, n, action, skip) ==
    /\ raised' = "none"
    /\ n \in Range(routables')
    /\ n \in DOMAIN attrs'[c]
    /\ {ON, SKIP} \subseteq DOMAIN attrs'[c][n]
    /\ attrs'[c][n][ON] = action
    /\ attrs'[c][n][SKIP] = skip

PostAttached(c, n, action) ==
    /\ raised' = "none"
    /\ n \in Range(routables')
    /\ n \in DOMAIN attrs'[c]
    /\ AFTER \in DOMAIN attrs'[c][n]
    /\ attrs'[c][n][AFTER] = action

RaisedValueError ==
    /\ raised' = "ValueError"
    /\ routables' = routables
    /\ attrs' = attrs

C8_RegistrationOutcome ==
    [][napps' = napps + 1 =>
        \A c \in Classes, n \in Names :
            OnlyTouches(c, n) =>
            \A k \in BOOLEAN :
                /\ \A a \in ActionMembers :
                      PostAttached(c, n, a) \/ ~after(c, n, a, k)
                /\ \A s \in BOOLEAN :
                      /\ \A a \in ActionMembers :
                            PrimaryAttached(c, n, a, s) \/ ~on(c, n, a, s, k)
                      /\ \A ct \in CallTypes :
                            \/ IF ct \in ActionMembers
                               THEN PrimaryAttached(c, n, ct, s)
                               ELSE RaisedValueError
                            \/ ~on_typed(c, n, ct, s, k)]_vars

C8_Witness ==
    /\ raised = "ValueError"
    /\ Len(routables) = 2
    /\ \E c \in Classes :
          /\ \E a \in ActionMembers : Claims(c, routables[1], ON, a)
          /\ \E a \in ActionMembers : Claims(c, routables[2], AFTER, a)

\* C9 (as stated): no callable carries both primary_action and
\* post_action (a callable returned by after carries no primary_action, one
\* returned by on or on_typed no post_action), and no attribute is both the
\* primary and the post handler of entries of a returned mapping.
C9_Original ==
    /\ \A c \in Classes : \A n \in DOMAIN attrs[c] :
          ~({ON, AFTER} \subseteq DOMAIN attrs[c][n])
    /\ Returned =>
          \A a \in DOMAIN retmap, b \in DOMAIN retmap :
              (ON \in DOMAIN retmap[a] /\ AFTER \in DOMAIN retmap[b])
              => retmap[a][ON] # retmap[b][AFTER]

\* C9 (amended): a wrapper applied to an unwrapped function returns a
\* callable carrying only its own metadata; applied to a callable returned
\* by a wrapper it returns one that also carries that callable's metadata.
\* skip_validation is carried exactly by the callables that carry
\* primary_action, and an attribute is entered both as primary and as post
\* handler only if it carries both primary_action and post_action.
Inherited(c, n, stacked) ==
    IF stacked /\ n \in DOMAIN attrs[c] THEN DOMAIN attrs[c][n] ELSE {}

KeepsTag(c, n, stacked, tag) ==
    tag \in Inherited(c, n, stacked)
    => attrs'[c][n][tag] = attrs[c][n][tag]

PrimaryStacked(c, n, k) ==
    /\ n \in DOMAIN attrs'[c]
    /\ DOMAIN attrs'[c][n] = {ON, SKIP} \cup Inherited(c, n, k)
    /\ KeepsTag(c, n, k, AFTER)

PostStacked(c, n, k) ==
    /\ n \in DOMAIN attrs'[c]
    /\ DOMAIN attrs'[c][n] = {AFTER} \cup Inherited(c, n, k)
    /\ KeepsTag(c, n, k, ON)
    /\ KeepsTag(c, n, k, SKIP)

TagsConsistent ==
    /\ \A c \in Classes : \A n \in DOMAIN attrs[c] :
          SKIP \in DOMAIN attrs[c][n] <=> ON \in DOMAIN attrs[c][n]
    /\ Returned =>
          \A a \in DOMAIN retmap, b \in DOMAIN retmap :
              (/\ ON \in DOMAIN retmap[a]
               /\ AFTER \in DOMAIN retmap[b]
               /\ retmap[a][ON] = retmap[b][AFTER])
              => /\ Claims(retobj, retmap[a][ON][2], ON, a)
                 /\ Claims(retobj, retmap[a][ON][2], AFTER, b)

C9_MetadataInherited ==
    [][/\ TagsConsistent'
       /\ (napps' = napps + 1 /\ raised' = "none") =>
            \A c \in Classes, n \in Names :
                OnlyTouches(c, n) =>
                \A k \in BOOLEAN :
                    /\ \A a \in ActionMembers :
                          PostStacked(c, n, k) \/ ~after(c, n, a, k)
                    /\ \A s \in BOOLEAN :
                          /\ \A a \in ActionMembers :
                                PrimaryStacked(c, n, k) \/ ~on(c, n, a, s, k)
                          /\ \A ct \in ActionMembers :
                                \/ PrimaryStacked(c, n, k)
                                \/ ~on_typed(c, n, ct, s, k)]_vars

C9_Witness ==
    /\ Returned
    /\ \E a \in DOMAIN retmap, b \in DOMAIN retmap :
          /\ a # b
          /\ ON \in DOMAIN retmap[a]
          /\ AFTER \in DOMAIN retmap[b]
          /\ retmap[a][ON] = retmap[b][AFTER]

\* C10: with the membership test and the append as separate steps, the
\* append of a thread that passed the test adds the name even when another
\* thread has added it since, and routables then holds the name twice.
C10_AppendNotAtomic ==
    [][\A t \in Threads :
        RaceAppend(t) =>
            /\ routables' = Append(routables, treq[t].name)
            /\ treq[t].name \in Range(routables)
                 => Count(routables', treq[t].name) = 2]_vars

C10_Witness ==
    /\ \E n \in Names : Count(routables, n) = 2
    /\ \A t \in Threads : tpc[t] = "idle"

====
